---- MODULE Spec2Model ----
(***************************************************************************)
(* A model of medication.py: the Dosage sum type (TabletDosage |          *)
(* InfusionDosage), the Medication record, the two formatting functions   *)
(* format and formatDosage, and the four top-level statements of the      *)
(* module body.                                                            *)
(*                                                                         *)
(* Python values are modelled as records tagged with their class in the   *)
(* field "type".  Text is a TLA+ string, int is an integer.  A float is   *)
(* modelled by the decimal it is nearest to, in hundredths, together with *)
(* its sign bit, or as inf / nan.                                          *)
(*                                                                         *)
(* The module body runs first (pc).  Once it has run to its end the       *)
(* functions it defined are called by a typed client on arbitrary         *)
(* arguments: the client builds an argument object (arg, cpc) and then    *)
(* calls format or formatDosage on it; every completed call is appended   *)
(* to the log calls.                                                       *)
(***************************************************************************)
EXTENDS Integers, Sequences, FiniteSets, TLC

VARIABLES pc, paracetamol, infliximab, tmp, stdout, status, cpc, arg, calls

vars == <<pc, paracetamol, infliximab, tmp, stdout, status, cpc, arg, calls>>

(***************************************************************************)
(* Bounds of the checked input sets.                                       *)
(***************************************************************************)
\* Spec: tablet counts and infusion durations range over -MaxCount..MaxCount
MaxCount == 10
\* Spec: finite speeds range over 0..MaxHundredths hundredths, with either sign
MaxHundredths == 150
\* SpecPairs: counts and durations of magnitude up to PairMaxCount
PairMaxCount == 11
\* SpecPairs: finite speeds up to PairMaxHundredths hundredths
PairMaxHundredths == 1
\* SpecRepeat: counts and durations 0..RepeatMaxCount, and MaxCalls logged calls
RepeatMaxCount == 1
MaxCalls == 3

(***************************************************************************)
(* Values.                                                                 *)
(***************************************************************************)
None == [type |-> "NoneType"]

Str(s) == [type |-> "str", val |-> s]

\* a name of the module namespace that no statement has bound yet
Unbound == [type |-> "unbound"]

Finite(neg, hundredths) ==
    [type |-> "float", cls |-> "finite", neg |-> neg, hundredths |-> hundredths]

Inf(neg) == [type |-> "float", cls |-> "inf", neg |-> neg, hundredths |-> 0]

NaN == [type |-> "float", cls |-> "nan", neg |-> FALSE, hundredths |-> 0]

TabletDosage(morning, midday, evening) ==
    [type |-> "TabletDosage", morning |-> morning, midday |-> midday,
     evening |-> evening]

InfusionDosage(speed, duration) ==
    [type |-> "InfusionDosage", speed |-> speed, duration |-> duration]

Medication(drugName, dosage) ==
    [type |-> "Medication", drugName |-> drugName, dosage |-> dosage]

(***************************************************************************)
(* The conversions an f-string applies to a replacement field.            *)
(***************************************************************************)
Digits == <<"0", "1", "2", "3", "4", "5", "6", "7", "8", "9">>

Digit(d) == Digits[d + 1]

RECURSIVE NatStr(_)
NatStr(n) == IF n < 10 THEN Digit(n) ELSE NatStr(n \div 10) \o Digit(n % 10)

\* str(int): a minus sign for a negative number, then the decimal digits
IntStr(n) == IF n < 0 THEN "-" \o NatStr(-n) ELSE NatStr(n)

\* the fractional digits of a value in hundredths, trailing zero dropped,
\* at least one digit kept
FracStr(h) ==
    IF h % 10 = 0 THEN Digit(h \div 10) ELSE Digit(h \div 10) \o Digit(h % 10)

\* FloatStr with the fraction of a whole number left out ("2" for 2.0)
FloatStr_trimmed(x) ==
    CASE x.cls = "nan" -> "nan"
      [] x.cls = "inf" -> (IF x.neg THEN "-" ELSE "") \o "inf"
      [] x.hundredths % 100 = 0 ->
            (IF x.neg THEN "-" ELSE "") \o NatStr(x.hundredths \div 100)
      [] OTHER ->
            (IF x.neg THEN "-" ELSE "")
                \o NatStr(x.hundredths \div 100) \o "."
                \o FracStr(x.hundredths % 100)

\* str(float): the shortest decimal that reads back as the same float, always
\* with a decimal point; the sign bit is shown also for zero and for inf
FloatStr(x) ==
    CASE x.cls = "nan" -> "nan"
      [] x.cls = "inf" -> (IF x.neg THEN "-" ELSE "") \o "inf"
      [] OTHER ->
            (IF x.neg THEN "-" ELSE "")
                \o NatStr(x.hundredths \div 100) \o "."
                \o FracStr(x.hundredths % 100)

\* the text an f-string puts in place of {v} for a function's result
FormatValue(v) == IF v.type = "str" THEN v.val ELSE "None"

(***************************************************************************)
(* formatDosage and format.                                                *)
(***************************************************************************)
\* formatDosage with evening and midday in the wrong order
formatDosage_swapped(d) ==
    CASE d.type = "TabletDosage" ->
            Str(IntStr(d.morning) \o "-" \o IntStr(d.evening) \o "-"
                    \o IntStr(d.midday))
      [] d.type = "InfusionDosage" ->
            Str(FloatStr(d.speed) \o " ml/min for " \o IntStr(d.duration)
                    \o "h")
      [] OTHER -> None

\* formatDosage with the InfusionDosage case missing
formatDosage_tabletOnly(d) ==
    CASE d.type = "TabletDosage" ->
            Str(IntStr(d.morning) \o "-" \o IntStr(d.midday) \o "-"
                    \o IntStr(d.evening))
      [] OTHER -> None

\* formatDosage with the three counts written without the hyphens
formatDosage_noSep(d) ==
    CASE d.type = "TabletDosage" ->
            Str(IntStr(d.morning) \o IntStr(d.midday) \o IntStr(d.evening))
      [] d.type = "InfusionDosage" ->
            Str(FloatStr(d.speed) \o " ml/min for " \o IntStr(d.duration)
                    \o "h")
      [] OTHER -> None

formatDosage(d) ==
    CASE d.type = "TabletDosage" ->
            Str(IntStr(d.morning) \o "-" \o IntStr(d.midday) \o "-"
                    \o IntStr(d.evening))
      [] d.type = "InfusionDosage" ->
            Str(FloatStr(d.speed) \o " ml/min for " \o IntStr(d.duration)
                    \o "h")
      [] OTHER -> None

\* format with no space after the colon
format_noSpace(m) ==
    Str(m.drugName \o ":" \o FormatValue(formatDosage(m.dosage)))

\* format handing the Medication itself to formatDosage
format_wrongArg(m) == Str(m.drugName \o ": " \o FormatValue(formatDosage(m)))

\* format reusing the text of the latest logged formatDosage call, whatever
\* its argument was
format_staleCache(m) ==
    IF calls # <<>> /\ calls[Len(calls)].fn = "formatDosage"
    THEN Str(m.drugName \o ": " \o FormatValue(calls[Len(calls)].ret))
    ELSE Str(m.drugName \o ": " \o FormatValue(formatDosage(m.dosage)))

format(m) == Str(m.drugName \o ": " \o FormatValue(formatDosage(m.dosage)))

(***************************************************************************)
(* The module body, lines 32 to 35.                                        *)
(***************************************************************************)
Init ==
    /\ pc = "l32"
    /\ paracetamol = Unbound
    /\ infliximab = Unbound
    /\ tmp = None
    /\ stdout = <<>>
    /\ status = "running"
    /\ cpc = "idle"
    /\ arg = None
    /\ calls = <<>>

\* paracetamol = Medication("Paracetamol", TabletDosage(1,0,2))
Construct32 ==
    /\ pc = "l32"
    /\ paracetamol' = Medication("Paracetamol", TabletDosage(1, 0, 2))
    /\ pc' = "l33"
    /\ UNCHANGED <<infliximab, tmp, stdout, status, cpc, arg, calls>>

\* infliximab = Medication("Infliximab", InfusionDosage(1.5, 2))
Construct33 ==
    /\ pc = "l33"
    /\ infliximab' = Medication("Infliximab",
                                InfusionDosage(Finite(FALSE, 150), 2))
    /\ pc' = "l34"
    /\ UNCHANGED <<paracetamol, tmp, stdout, status, cpc, arg, calls>>

\* line 34 with a format that writes its result to standard output itself
Call34_printing ==
    /\ pc = "l34"
    /\ tmp' = format(paracetamol)
    /\ stdout' = Append(stdout, FormatValue(format(paracetamol)))
    /\ pc' = "l34print"
    /\ UNCHANGED <<paracetamol, infliximab, status, cpc, arg, calls>>

\* line 34 with a format that resets the dosage of its argument
Call34_mutating ==
    /\ pc = "l34"
    /\ tmp' = format(paracetamol)
    /\ paracetamol' = Medication(paracetamol.drugName, TabletDosage(0, 0, 0))
    /\ pc' = "l34print"
    /\ UNCHANGED <<infliximab, stdout, status, cpc, arg, calls>>

\* the argument of print on line 34: format(paracetamol)
Call34 ==
    /\ pc = "l34"
    /\ tmp' = format(paracetamol)
    /\ pc' = "l34print"
    /\ UNCHANGED <<paracetamol, infliximab, stdout, status, cpc, arg, calls>>

\* print(...) on line 34: one line on standard output
Print34 ==
    /\ pc = "l34print"
    /\ stdout' = Append(stdout, FormatValue(tmp))
    /\ tmp' = None
    /\ pc' = "l35"
    /\ UNCHANGED <<paracetamol, infliximab, status, cpc, arg, calls>>

\* line 35 formatting paracetamol a second time
Call35_wrongVar ==
    /\ pc = "l35"
    /\ tmp' = format(paracetamol)
    /\ pc' = "l35print"
    /\ UNCHANGED <<paracetamol, infliximab, stdout, status, cpc, arg, calls>>

\* the argument of print on line 35: format(infliximab)
Call35 ==
    /\ pc = "l35"
    /\ tmp' = format(infliximab)
    /\ pc' = "l35print"
    /\ UNCHANGED <<paracetamol, infliximab, stdout, status, cpc, arg, calls>>

\* print(...) on line 35
Print35 ==
    /\ pc = "l35print"
    /\ stdout' = Append(stdout, FormatValue(tmp))
    /\ tmp' = None
    /\ pc' = "eof"
    /\ UNCHANGED <<paracetamol, infliximab, status, cpc, arg, calls>>

\* the end of the module body: no statement raised
Finish ==
    /\ pc = "eof"
    /\ pc' = "done"
    /\ status' = "success"
    /\ UNCHANGED <<paracetamol, infliximab, tmp, stdout, cpc, arg, calls>>

Main ==
    \/ Construct32
    \/ Construct33
    \/ Call34
    \/ Print34
    \/ Call35
    \/ Print35
    \/ Finish

(***************************************************************************)
(* Calls of the two functions by a client of the loaded module.           *)
(***************************************************************************)
\* the client builds the argument of its next call
ClientMake(inputs, cap) ==
    /\ pc = "done"
    /\ cpc = "idle"
    /\ Len(calls) < cap
    /\ \E v \in inputs : arg' = v
    /\ cpc' = "ready"
    /\ UNCHANGED <<pc, paracetamol, infliximab, tmp, stdout, status, calls>>

ClientCallFormat ==
    /\ pc = "done"
    /\ cpc = "ready"
    /\ arg.type = "Medication"
    /\ calls' = Append(calls, [fn |-> "format", arg |-> arg,
                               ret |-> format(arg)])
    /\ cpc' = "idle"
    /\ UNCHANGED <<pc, paracetamol, infliximab, tmp, stdout, status, arg>>

ClientCallFormatDosage ==
    /\ pc = "done"
    /\ cpc = "ready"
    /\ arg.type \in {"TabletDosage", "InfusionDosage"}
    /\ calls' = Append(calls, [fn |-> "formatDosage", arg |-> arg,
                               ret |-> formatDosage(arg)])
    /\ cpc' = "idle"
    /\ UNCHANGED <<pc, paracetamol, infliximab, tmp, stdout, status, arg>>

(***************************************************************************)
(* Spec: the module body, then one call on any argument of the wide sets. *)
(***************************************************************************)
Counts == -MaxCount .. MaxCount

Speeds ==
    {Finite(neg, h) : neg \in BOOLEAN, h \in 0 .. MaxHundredths}
        \cup {Inf(FALSE), Inf(TRUE), NaN}

Names == {"", "Paracetamol", "Infliximab"}

Tablets == {TabletDosage(a, b, c) : a \in Counts, b \in Counts, c \in Counts}

Infusions == {InfusionDosage(s, t) : s \in Speeds, t \in Counts}

Dosages == Tablets \cup Infusions

Medications == {Medication(n, d) : n \in Names, d \in Dosages}

Next ==
    \/ Main
    \/ ClientMake(Medications \cup Dosages, 1)
    \/ ClientCallFormat
    \/ ClientCallFormatDosage

Spec == Init /\ [][Next]_vars

(***************************************************************************)
(* SpecPairs: the module body, then two calls of formatDosage on any two  *)
(* dosages whose numbers have the digits 0 and 1 only, with either sign.  *)
(***************************************************************************)
Abs(n) == IF n < 0 THEN -n ELSE n

PairCounts == {n \in -PairMaxCount .. PairMaxCount : Abs(n) % 10 <= 1}

PairSpeeds ==
    {Finite(neg, h) : neg \in BOOLEAN, h \in 0 .. PairMaxHundredths}
        \cup {Inf(FALSE), Inf(TRUE), NaN}

PairDosages ==
    {TabletDosage(a, b, c) : a \in PairCounts, b \in PairCounts,
                             c \in PairCounts}
        \cup {InfusionDosage(s, t) : s \in PairSpeeds, t \in PairCounts}

NextPairs ==
    \/ Main
    \/ ClientMake(PairDosages, 2)
    \/ ClientCallFormatDosage

SpecPairs == Init /\ [][NextPairs]_vars

(***************************************************************************)
(* SpecRepeat: the module body, then up to MaxCalls calls of either       *)
(* function on arguments of a small set that holds the module's own two   *)
(* medications.                                                            *)
(***************************************************************************)
RepeatDosages ==
    {TabletDosage(a, 0, 2) : a \in 0 .. RepeatMaxCount}
        \cup {InfusionDosage(Finite(FALSE, 150), t) :
                  t \in 1 .. RepeatMaxCount + 1}

RepeatMedications ==
    {Medication(n, d) : n \in {"Paracetamol", "Infliximab"},
                        d \in RepeatDosages}

NextRepeat ==
    \/ Main
    \/ ClientMake(RepeatMedications \cup RepeatDosages, MaxCalls)
    \/ ClientCallFormat
    \/ ClientCallFormatDosage

SpecRepeat == Init /\ [][NextRepeat]_vars

(***************************************************************************)
(* Properties.                                                             *)
(***************************************************************************)
ParacetamolValue == Medication("Paracetamol", TabletDosage(1, 0, 2))

InfliximabValue ==
    Medication("Infliximab", InfusionDosage(Finite(FALSE, 150), 2))

Line1 == "Paracetamol: 1-0-2"

Line2 == "Infliximab: 1.5 ml/min for 2h"

\* the logged calls of function fn
Logged(fn) == {calls[i] : i \in {j \in 1 .. Len(calls) : calls[j].fn = fn}}

\* the number of characters of the decimal text of n, for n of at most
\* three digits
NumLen(n) ==
    (IF n < 0 THEN 1 ELSE 0)
        + (IF Abs(n) < 10 THEN 1 ELSE IF Abs(n) < 100 THEN 2 ELSE 3)

\* C1: every call format(m) returns the text drugName, ": ", the text of
\* formatDosage(m.dosage), and nothing else; for the module's own two
\* medications that is "Paracetamol: 1-0-2" and
\* "Infliximab: 1.5 ml/min for 2h".
FormatIsNameColonDosage ==
    /\ \A c \in Logged("format") :
          /\ c.ret = Str(c.arg.drugName \o ": "
                            \o formatDosage(c.arg.dosage).val)
          /\ Len(c.ret.val)
                = Len(c.arg.drugName) + 2 + Len(formatDosage(c.arg.dosage).val)
          /\ c.arg = ParacetamolValue => c.ret = Str(Line1)
          /\ c.arg = InfliximabValue => c.ret = Str(Line2)
          /\ c.arg = Medication("", TabletDosage(-10, 7, 10))
                => c.ret = Str(": -10-7-10")
    /\ pc = "l34print" => tmp = Str(Line1)
    /\ pc = "l35print" => tmp = Str(Line2)

FormatIsNameColonDosageWitness ==
    /\ Len(calls) = 1
    /\ calls[1] = [fn |-> "format", arg |-> InfliximabValue,
                   ret |-> Str("Infliximab: 1.5 ml/min for 2h")]

\* C2: for a TabletDosage, formatDosage returns the decimal texts of
\* morning, midday and evening in that order, joined by single hyphens,
\* unpadded, with nothing before or after; {1, 0, 2} gives "1-0-2".
TabletIsHyphenJoined ==
    \A c \in Logged("formatDosage") :
        c.arg.type = "TabletDosage" =>
            /\ c.ret = Str(IntStr(c.arg.morning) \o "-" \o IntStr(c.arg.midday)
                              \o "-" \o IntStr(c.arg.evening))
            /\ Len(c.ret.val)
                  = NumLen(c.arg.morning) + NumLen(c.arg.midday)
                        + NumLen(c.arg.evening) + 2
            /\ c.arg = TabletDosage(1, 0, 2) => c.ret = Str("1-0-2")
            /\ c.arg = TabletDosage(0, 0, 0) => c.ret = Str("0-0-0")
            /\ c.arg = TabletDosage(10, 9, 1) => c.ret = Str("10-9-1")
            /\ c.arg = TabletDosage(-1, -10, -3) => c.ret = Str("-1--10--3")
            /\ c.arg = TabletDosage(7, -8, 10) => c.ret = Str("7--8-10")

TabletIsHyphenJoinedWitness ==
    /\ Len(calls) = 1
    /\ calls[1] = [fn |-> "formatDosage", arg |-> TabletDosage(1, 0, 2),
                   ret |-> Str("1-0-2")]

\* C3: for an InfusionDosage, formatDosage returns the text of speed, then
\* " ml/min for ", then the integer text of duration, then "h";
\* {1.5, 2} gives "1.5 ml/min for 2h".
InfusionIsSpeedForDuration ==
    \A c \in Logged("formatDosage") :
        c.arg.type = "InfusionDosage" =>
            /\ c.ret = Str(FloatStr(c.arg.speed) \o " ml/min for "
                              \o IntStr(c.arg.duration) \o "h")
            /\ c.arg = InfusionDosage(Finite(FALSE, 150), 2)
                  => c.ret = Str("1.5 ml/min for 2h")
            /\ c.arg = InfusionDosage(Finite(FALSE, 100), 10)
                  => c.ret = Str("1.0 ml/min for 10h")
            /\ c.arg = InfusionDosage(Finite(FALSE, 0), 0)
                  => c.ret = Str("0.0 ml/min for 0h")
            /\ c.arg = InfusionDosage(Finite(TRUE, 0), 1)
                  => c.ret = Str("-0.0 ml/min for 1h")
            /\ c.arg = InfusionDosage(Finite(TRUE, 5), -10)
                  => c.ret = Str("-0.05 ml/min for -10h")
            /\ c.arg = InfusionDosage(Finite(FALSE, 125), 3)
                  => c.ret = Str("1.25 ml/min for 3h")
            /\ c.arg = InfusionDosage(Inf(TRUE), 2)
                  => c.ret = Str("-inf ml/min for 2h")
            /\ c.arg = InfusionDosage(NaN, 2)
                  => c.ret = Str("nan ml/min for 2h")

InfusionIsSpeedForDurationWitness ==
    /\ Len(calls) = 1
    /\ calls[1] = [fn |-> "formatDosage",
                   arg |-> InfusionDosage(Finite(FALSE, 150), 2),
                   ret |-> Str("1.5 ml/min for 2h")]

\* C4: the module body writes exactly the two lines "Paracetamol: 1-0-2"
\* and "Infliximab: 1.5 ml/min for 2h" to standard output, in that order;
\* no other line is ever written, no statement before the end is stuck, and
\* the run ends with success.
OutputIsTwoLines ==
    /\ stdout \in {<<>>, <<Line1>>, <<Line1, Line2>>}
    /\ pc \in {"l32", "l33", "l34", "l34print"} => stdout = <<>>
    /\ pc \in {"l35", "l35print"} => stdout = <<Line1>>
    /\ pc \in {"eof", "done"} => stdout = <<Line1, Line2>>
    /\ pc # "done" => ENABLED Main
    /\ status = (IF pc = "done" THEN "success" ELSE "running")

OutputIsTwoLinesWitness ==
    /\ pc = "done"
    /\ status = "success"
    /\ stdout = <<"Paracetamol: 1-0-2", "Infliximab: 1.5 ml/min for 2h">>
    /\ Len(calls) = 1

\* C5: for every TabletDosage and every InfusionDosage the call of
\* formatDosage completes and returns a non-empty string.
FormatDosageTotal ==
    /\ (pc = "done" /\ cpc = "ready"
            /\ arg.type \in {"TabletDosage", "InfusionDosage"})
          => ENABLED ClientCallFormatDosage
    /\ \A c \in Logged("formatDosage") :
          /\ c.arg \in Dosages
          /\ c.ret.type = "str"
          /\ c.ret.val \in STRING
          /\ c.ret.val # ""
          /\ Len(c.ret.val) >= 5

FormatDosageTotalWitness ==
    /\ Len(calls) = 1
    /\ calls[1].fn = "formatDosage"
    /\ calls[1].arg = InfusionDosage(NaN, -10)
    /\ calls[1].ret.type = "str"
    /\ Len(calls[1].ret.val) > 0

CallStep ==
    \/ calls' # calls
    \/ pc \in {"l34", "l35"} /\ pc' # pc

\* C8: a call of format or formatDosage changes neither its argument nor
\* any Medication nor standard output; standard output changes only in the
\* two print steps of the module body, by one appended line.
CallsHaveNoEffect ==
    [][/\ CallStep =>
            /\ stdout' = stdout
            /\ paracetamol' = paracetamol
            /\ infliximab' = infliximab
            /\ arg' = arg
            /\ status' = status
            /\ calls' # calls =>
                  /\ SubSeq(calls', 1, Len(calls)) = calls
                  /\ Len(calls') = Len(calls) + 1
                  /\ calls'[Len(calls')].arg = arg
       /\ stdout' # stdout =>
            /\ pc \in {"l34print", "l35print"}
            /\ stdout' = Append(stdout, tmp.val)
            /\ paracetamol' = paracetamol
            /\ infliximab' = infliximab]_vars

CallsHaveNoEffectWitness ==
    /\ Len(calls) = 1
    /\ calls[1].fn = "format"
    /\ calls[1].arg = arg
    /\ arg = ParacetamolValue
    /\ paracetamol = ParacetamolValue
    /\ Len(stdout) = 2

\* C9: paracetamol and infliximab are bound once, to
\* Medication("Paracetamol", TabletDosage(1,0,2)) and
\* Medication("Infliximab", InfusionDosage(1.5,2)), and keep that value in
\* every later state.
GlobalsNeverMutated ==
    /\ paracetamol = (IF pc = "l32" THEN Unbound ELSE ParacetamolValue)
    /\ infliximab = (IF pc \in {"l32", "l33"} THEN Unbound
                     ELSE InfliximabValue)

GlobalsNeverMutatedWitness ==
    /\ pc = "done"
    /\ Len(calls) = 1
    /\ paracetamol = Medication("Paracetamol", TabletDosage(1, 0, 2))
    /\ infliximab
          = Medication("Infliximab", InfusionDosage(Finite(FALSE, 150), 2))

\* C10: formatDosage is injective, negative counts included: two calls
\* that return the same text have arguments of the same variant, and then
\* the same TabletDosage, or InfusionDosages of the same speed text and
\* the same duration.
FormatDosageInjective ==
    \A c1 \in Logged("formatDosage") : \A c2 \in Logged("formatDosage") :
        c1.ret = c2.ret =>
            /\ c1.arg.type = c2.arg.type
            /\ c1.arg.type = "TabletDosage" => c1.arg = c2.arg
            /\ c1.arg.type = "InfusionDosage" =>
                  /\ FloatStr(c1.arg.speed) = FloatStr(c2.arg.speed)
                  /\ c1.arg.duration = c2.arg.duration

FormatDosageInjectiveWitness ==
    /\ Len(calls) = 2
    /\ calls[1].arg = TabletDosage(1, -1, 10)
    /\ calls[2].arg = TabletDosage(-1, 1, -10)
    /\ calls[1].ret = Str("1--1-10")
    /\ calls[2].ret = Str("-1-1--10")

====
